---- MODULE Spec2Model ----
(***************************************************************************)
(* State-machine model of src/tasks/tsp.py: the TSPCurriculum controller   *)
(* (add_stage, start, increment_epoch, get_dataset), the _TSPStage and     *)
(* TSPDataset objects it creates.                                          *)
(*                                                                         *)
(* Python's None is the empty sequence <<>>; an object reference is the    *)
(* one-element sequence <<object>>.  _curr_stage_index, which is None      *)
(* before start(), is NoneIndex.  Python lists are 0-based, TLA+ sequences *)
(* 1-based: StageAt(i) is self._stages[i].                                 *)
(***************************************************************************)
EXTENDS Integers, Sequences, FiniteSets, TLC

\* Bounds of the exploration.
MaxStages == 3
MaxLen == 2
MaxEpoch == MaxStages * MaxLen + 2
MaxBatch == 2
MaxSamples == 2

\* The inputs the exploration draws from: (num_nodes, num_samples, seed) of the
\* constructor, and the num_tiles and param arguments of add_stage.
CurriculumArgs == {<<3, 2, 1>>, <<4, 5, 0>>}
TileCounts == {1, 2}
Params == {7}

\* The numbers of cities N of the masks, and the dynamic arguments (this task
\* has no dynamic state: the trainer passes whatever it holds).
MaskWidths == {1, 2, 3}
Dynamics == {"zeros", "stale"}

None == <<>>
NoneIndex == -1

VARIABLES
    num_nodes,          \* self._num_nodes
    num_samples,        \* self._num_samples
    seed,               \* self._seed
    stages,             \* self._stages
    curr_stage_index,   \* self._curr_stage_index
    curr_stage,         \* self._curr_stage
    curr_dataset,       \* self._curr_dataset
    curr_epoch,         \* self._curr_epoch
    curr_len,           \* self._curr_len
    finished,           \* self._finished
    call,               \* the last call made on the curriculum and its arguments
    err,                \* the exception the last call raised, "none" if it returned
    ret,                \* the value the last call returned (None for the procedures)
    num_datasets,       \* how many TSPDataset objects were constructed (object identity)
    usage,              \* "building" (add_stage calls only), "started" (then one
                        \* start() that returned, then increment_epoch calls), or
                        \* "misuse" (a call outside that protocol was made)
    log,                \* since the last successful start(), per epoch: what get_dataset() gives
    mask,               \* update_mask: the mask tensor [B, N] the caller passes (mutated in place)
    mask0,              \* the mask as it was before the first update_mask call
    chosen_idx,         \* the chosen_idx argument of the last update_mask call (None: no call yet)
    chosen,             \* per batch element, the indices chosen in the calls made so far
    mask_ret,           \* the tensor the last update_mask call returned
    static,             \* reward: the static argument, [batch][city] -> coordinates
    tour_indices,       \* reward: the tour_indices argument, [batch][position] -> city
    reward_out,         \* the tensor [batch] the last reward call returned
    prev_reward,        \* the tensor reward returned for the tour in the opposite direction
    phase,              \* where the caller of reward is
    built,              \* the arguments the TSPDataset was built with and the sampler's nodes
    dataset,            \* the TSPDataset object under access
    item_call,          \* the last access made on it
    item_ret,           \* what that access returned
    item_seen           \* per index, the triple its last access returned and whether it
                        \* was accessed more than once (None: not accessed)

curriculumVars == <<num_nodes, num_samples, seed, stages, curr_stage_index, curr_stage,
                    curr_dataset, curr_epoch, curr_len, finished, call, err, ret,
                    num_datasets, usage, log>>

maskVars == <<mask, mask0, chosen_idx, chosen, mask_ret>>

rewardVars == <<static, tour_indices, reward_out, prev_reward, phase>>

datasetVars == <<built, dataset, item_call, item_ret, item_seen>>

vars == <<curriculumVars, maskVars, rewardVars, datasetVars>>

\* The fields of the curriculum object.
fields == <<num_nodes, num_samples, seed, stages, curr_stage_index, curr_stage,
            curr_dataset, curr_epoch, curr_len, finished>>

\* _TSPStage.__init__
TSPStage(num_tiles, param, start, length) ==
    [num_tiles |-> num_tiles, param |-> param, start |-> start, length |-> length]

\* TSPDataset.__init__ as the curriculum sees it: the object is determined by
\* its constructor arguments; id tells apart objects built from equal arguments.
TSPDataset(nn, ns, sd, nt, p, id) ==
    [num_nodes |-> nn, num_samples |-> ns, seed |-> sd, num_tiles |-> nt,
     param |-> p, id |-> id]

\* self._stages[i]
StageAt(i) == stages[i + 1]

\* i is a valid index of self._stages (no IndexError); i is never negative here
InRange(i) == i >= 0 /\ i < Len(stages)

Call(op, nt, p, ne) == [op |-> op, num_tiles |-> nt, param |-> p, num_epochs |-> ne]

\* GetDatasetErr without the assertion
GetDatasetErr_unchecked(fin) == "none"

\* What get_dataset() does in the current state: the exception and the value.
GetDatasetErr(fin) == IF fin THEN "AssertionError" ELSE "none"

GetDatasetRet(fin, ds) == IF fin THEN None ELSE ds

LogEntry(e, i, fin, ds) == [epoch |-> e, stage |-> i, ds |-> GetDatasetRet(fin, ds)]

\* The variables of the functions and objects a specification leaves alone.
MaskIdle ==
    mask = None /\ mask0 = None /\ chosen_idx = None /\ chosen = None /\ mask_ret = None

RewardIdle ==
    /\ static = None /\ tour_indices = None /\ reward_out = None
    /\ prev_reward = None /\ phase = "idle"

DatasetIdle ==
    /\ built = None /\ dataset = None /\ item_call = None /\ item_ret = None
    /\ item_seen = None

CurriculumIdle ==
    /\ num_nodes = None /\ num_samples = None /\ seed = None /\ stages = None
    /\ curr_stage_index = None /\ curr_stage = None /\ curr_dataset = None
    /\ curr_epoch = None /\ curr_len = None /\ finished = None /\ call = None
    /\ err = None /\ ret = None /\ num_datasets = None /\ usage = "idle"
    /\ log = None

\* TSPCurriculum.__init__
Init ==
    /\ \E args \in CurriculumArgs :
          num_nodes = args[1] /\ num_samples = args[2] /\ seed = args[3]
    /\ stages = <<>>
    /\ curr_stage_index = NoneIndex
    /\ curr_stage = None
    /\ curr_dataset = None
    /\ curr_epoch = -1
    /\ curr_len = 0
    /\ finished = FALSE
    /\ call = Call("init", 0, 0, 0)
    /\ err = "none"
    /\ ret = None
    /\ num_datasets = 0
    /\ usage = "building"
    /\ log = <<>>
    /\ MaskIdle /\ RewardIdle /\ DatasetIdle

\* A run is followed up to and including its first call outside the trainer's
\* protocol (add_stage calls, one start(), then increment_epoch calls);
\* get_dataset, which changes nothing, stays callable.
Explored == usage # "misuse"

\* StageStart counting one epoch too many
StageStart_plus1(len) == len + 1

\* The start attribute add_stage gives the new stage.
StageStart(len) == len

\* TSPCurriculum.add_stage
add_stage(num_tiles, param, num_epochs) ==
    /\ Explored
    /\ Len(stages) < MaxStages
    /\ stages' = Append(stages, TSPStage(num_tiles, param, StageStart(curr_len), num_epochs))
    /\ curr_len' = curr_len + num_epochs
    /\ call' = Call("add_stage", num_tiles, param, num_epochs)
    /\ err' = "none"
    /\ ret' = None
    /\ usage' = IF usage = "building" THEN "building" ELSE "misuse"
    /\ UNCHANGED <<num_nodes, num_samples, seed, curr_stage_index, curr_stage,
                   curr_dataset, curr_epoch, finished, num_datasets, log>>
    /\ UNCHANGED <<maskVars, rewardVars, datasetVars>>

\* TSPCurriculum.start
start ==
    /\ Explored
    /\ curr_epoch' = 0
    /\ curr_stage_index' = 0
    /\ IF InRange(0)
       THEN /\ curr_stage' = <<StageAt(0)>>
            /\ curr_dataset' = <<TSPDataset(num_nodes, num_samples, seed,
                                            StageAt(0).num_tiles, StageAt(0).param,
                                            num_datasets + 1)>>
            /\ num_datasets' = num_datasets + 1
            /\ err' = "none"
            /\ log' = <<LogEntry(0, 0, finished, curr_dataset')>>
       ELSE /\ err' = "IndexError"
            /\ UNCHANGED <<curr_stage, curr_dataset, num_datasets, log>>
    /\ call' = Call("start", 0, 0, 0)
    /\ ret' = None
    /\ usage' = IF usage = "building" /\ InRange(0) THEN "started" ELSE "misuse"
    /\ UNCHANGED <<num_nodes, num_samples, seed, stages, curr_len, finished>>
    /\ UNCHANGED <<maskVars, rewardVars, datasetVars>>

\* IncrementedEpoch that stops counting once the epoch was started
IncrementedEpoch_stuck(e) == IF e >= 1 THEN e ELSE e + 1

\* increment_epoch, line 82
IncrementedEpoch(e) == e + 1

\* FinishedAfter with > written for ==
FinishedAfter_gt(e, len, fin) == fin \/ e > len

\* FinishedAfter that recomputes the flag at every epoch
FinishedAfter_recomputed(e, len, fin) == e = len

\* increment_epoch, lines 84-86: the finished flag after the epoch became e
FinishedAfter(e, len, fin) == fin \/ e = len

\* new_stage_epoch without the + 1
new_stage_epoch_exact(stage) == stage.start + stage.length

\* increment_epoch, line 88
new_stage_epoch(stage) == stage.start + stage.length + 1

\* StageChanges without the finished guard
StageChanges_unguarded(e, stage, fin) == e = new_stage_epoch(stage)

\* increment_epoch, line 89: the stage changes at epoch e
StageChanges(e, stage, fin) == e = new_stage_epoch(stage) /\ ~fin

\* TSPCurriculum.increment_epoch
increment_epoch ==
    /\ Explored
    /\ curr_epoch < MaxEpoch
    /\ LET e == IncrementedEpoch(curr_epoch)
           fin == FinishedAfter(e, curr_len, finished)
           i == curr_stage_index + 1
       IN /\ curr_epoch' = e
          /\ finished' = fin
          /\ IF curr_stage = None
             THEN /\ err' = "AttributeError"
                  /\ UNCHANGED <<curr_stage_index, curr_stage, curr_dataset, num_datasets>>
             ELSE IF StageChanges(e, curr_stage[1], fin)
             THEN /\ curr_stage_index' = i
                  /\ IF InRange(i)
                     THEN /\ curr_stage' = <<StageAt(i)>>
                          /\ curr_dataset' = <<TSPDataset(num_nodes, num_samples, seed,
                                                          StageAt(i).num_tiles,
                                                          StageAt(i).param,
                                                          num_datasets + 1)>>
                          /\ num_datasets' = num_datasets + 1
                          /\ err' = "none"
                     ELSE /\ err' = "IndexError"
                          /\ UNCHANGED <<curr_stage, curr_dataset, num_datasets>>
             ELSE /\ err' = "none"
                  /\ UNCHANGED <<curr_stage_index, curr_stage, curr_dataset, num_datasets>>
          /\ log' = Append(log, LogEntry(e, curr_stage_index', fin, curr_dataset'))
    /\ call' = Call("increment_epoch", 0, 0, 0)
    /\ ret' = None
    /\ usage' = IF usage = "started" THEN "started" ELSE "misuse"
    /\ UNCHANGED <<num_nodes, num_samples, seed, stages, curr_len>>
    /\ UNCHANGED <<maskVars, rewardVars, datasetVars>>

\* TSPCurriculum.get_dataset
get_dataset ==
    /\ call' = Call("get_dataset", 0, 0, 0)
    /\ err' = GetDatasetErr(finished)
    /\ ret' = GetDatasetRet(finished, curr_dataset)
    /\ UNCHANGED <<num_nodes, num_samples, seed, stages, curr_stage_index, curr_stage,
                   curr_dataset, curr_epoch, curr_len, finished, num_datasets,
                   usage, log>>
    /\ UNCHANGED <<maskVars, rewardVars, datasetVars>>

Next ==
    \/ \E nt \in TileCounts, p \in Params, ne \in 0..MaxLen : add_stage(nt, p, ne)
    \/ start
    \/ increment_epoch
    \/ get_dataset

Spec == Init /\ [][Next]_vars

----------------------------------------------------------------------------
\* update_mask.  A tensor [B, N] is a sequence of B rows, each a sequence of N
\* entries; city index k (0-based) is position k + 1 of a row.

\* The rows a caller's mask starts from: all available, or city 0 already visited.
InitialRows(n) == {[j \in 1..n |-> 1], [j \in 1..n |-> IF j = 1 THEN 0 ELSE 1]}

\* Scatter that writes every row at the index chosen for the first row
Scatter_firstrow(m, idx) ==
    [b \in 1..Len(m) |-> [j \in 1..Len(m[b]) |-> IF j = idx[1] + 1 THEN 0 ELSE m[b][j]]]

\* Scatter that flips the chosen entry instead of clearing it
Scatter_toggle(m, idx) ==
    [b \in 1..Len(m) |->
        [j \in 1..Len(m[b]) |-> IF j = idx[b] + 1 THEN 1 - m[b][j] ELSE m[b][j]]]

\* mask.scatter_(1, chosen_idx.unsqueeze(1), 0): the contents of mask afterwards
Scatter(m, idx) ==
    [b \in 1..Len(m) |-> [j \in 1..Len(m[b]) |-> IF j = idx[b] + 1 THEN 0 ELSE m[b][j]]]

\* The caller's mask before the first update_mask call.
MaskInit ==
    /\ \E B \in 1..MaxBatch, N \in MaskWidths : mask \in [1..B -> InitialRows(N)]
    /\ mask0 = mask
    /\ chosen_idx = None
    /\ chosen = [b \in 1..Len(mask) |-> {}]
    /\ mask_ret = None
    /\ CurriculumIdle /\ RewardIdle /\ DatasetIdle

\* update_mask(mask, dynamic, chosen_idx): mask is mutated in place and returned
update_mask(dynamic, idx) ==
    /\ mask' = Scatter(mask, idx)
    /\ mask_ret' = mask'
    /\ chosen_idx' = idx
    /\ chosen' = [b \in 1..Len(mask) |-> chosen[b] \cup {idx[b]}]
    /\ UNCHANGED <<mask0, curriculumVars, rewardVars, datasetVars>>

MaskNext ==
    \E dynamic \in Dynamics, idx \in [1..Len(mask) -> 0..(Len(mask[1]) - 1)] :
        update_mask(dynamic, idx)

MaskSpec == MaskInit /\ [][MaskNext]_vars

----------------------------------------------------------------------------
\* reward.  static[b][c][n + 1] is coordinate c of city n of batch element b;
\* tour_indices[b][k] is the city visited at position k.  Coordinates are
\* integers, and a real number is kept exactly as a sum of square roots
\* c_1*sqrt(s_1) + c_2*sqrt(s_2) + ... over distinct square-free s_i: the
\* function s |-> c_s.  Two such sums are equal as reals exactly when they are
\* equal as functions.

\* The city layouts the exploration draws static from, as lists of (x, y).
CityLayouts ==
    { <<(<<0, 0>>)>>,
      <<(<<0, 0>>), (<<1, 0>>)>>,
      <<(<<2, 1>>), (<<0, 0>>)>>,
      <<(<<0, 0>>), (<<3, 0>>), (<<3, 4>>)>>,
      <<(<<1, 1>>), (<<0, 2>>), (<<1, 1>>)>>,
      <<(<<0, 0>>), (<<1, 0>>), (<<1, 1>>), (<<0, 1>>)>>,
      <<(<<0, 0>>), (<<2, 0>>), (<<0, 1>>), (<<3, 3>>)>> }

\* The numbers of cities N of the layouts.
CityCounts == {Len(l) : l \in CityLayouts}

\* The static tensor [coord_dims, N] of one batch element, from a layout.
StaticOf(layout) == [c \in 1..2 |-> [n \in 1..Len(layout) |-> layout[n][c]]]

\* The tours of n cities: the visiting orders (permutations), and the
\* degenerate tour that stays at city 0.
Tours(n) ==
    {t \in [1..n -> 0..(n - 1)] :
        \/ \A i, j \in 1..n : t[i] = t[j] => i = j
        \/ \A i \in 1..n : t[i] = 0}

\* The largest squared distance between two cities of a layout.
MaxSquared ==
    LET coords == UNION {{l[n][c] : n \in 1..Len(l), c \in 1..2} : l \in CityLayouts}
        m == CHOOSE x \in coords : \A y \in coords : y <= x
    IN 2 * m * m

\* The square-free numbers a distance can have under its root.
Radicands == {r \in 1..MaxSquared : \A k \in 2..r : r % (k * k) # 0}

\* The real numbers 0 and a + b.
Zero == [r \in Radicands |-> 0]

Add(a, b) == [r \in Radicands |-> a[r] + b[r]]

\* The square root of the integer d: k * sqrt(d / k^2) for the largest k with k^2 | d
SquareRoot(d) ==
    IF d = 0 THEN Zero
    ELSE LET k == CHOOSE i \in 1..d :
                     d % (i * i) = 0 /\ \A j \in (i + 1)..d : d % (j * j) # 0
         IN [r \in Radicands |-> IF r = d \div (k * k) THEN k ELSE 0]

\* The square roots of the squared distances, computed once.
SquareRoots == [d \in 0..MaxSquared |-> SquareRoot(d)]

\* torch.sqrt
Sqrt(d) == SquareRoots[d]

\* tour_indices.unsqueeze(1).expand_as(static), then torch.gather(static, 2, idx)
Gather(st, idx) ==
    [b \in 1..Len(st) |->
        [c \in 1..Len(st[b]) |-> [k \in 1..Len(idx[b]) |-> st[b][c][idx[b][k] + 1]]]]

\* .permute(0, 2, 1)
Permute(t) ==
    [b \in 1..Len(t) |->
        [k \in 1..Len(t[b][1]) |-> [c \in 1..Len(t[b]) |-> t[b][c][k]]]]

\* CloseTour that does not return to the start
CloseTour_open(tour) == tour

\* torch.cat((tour, tour[:, :1]), dim=1)
CloseTour(tour) == [b \in 1..Len(tour) |-> Append(tour[b], tour[b][1])]

RECURSIVE SumOver(_, _)
\* torch.sum of the integer vector v over its first n entries
SumOver(v, n) == IF n = 0 THEN 0 ELSE SumOver(v, n - 1) + v[n]

\* The squared distance torch.sum(torch.pow(p - q, 2)) of two points
SquaredDistance(p, q) ==
    SumOver([c \in 1..Len(p) |-> (p[c] - q[c]) * (p[c] - q[c])], Len(p))

\* TourLengths that slices the first leg away
TourLengths_skipfirst(y) ==
    [b \in 1..Len(y) |->
        [k \in 1..(Len(y[b]) - 2) |-> Sqrt(SquaredDistance(y[b][k + 1], y[b][k + 2]))]]

\* torch.sqrt(torch.sum(torch.pow(y[:, :-1] - y[:, 1:], 2), dim=2))
TourLengths(y) ==
    [b \in 1..Len(y) |->
        [k \in 1..(Len(y[b]) - 1) |-> Sqrt(SquaredDistance(y[b][k], y[b][k + 1]))]]

RECURSIVE SumReals(_, _)
\* The sum of the first n reals of v
SumReals(v, n) == IF n = 0 THEN Zero ELSE Add(SumReals(v, n - 1), v[n])

\* tour_len.sum(1)
SumRows(tour_len) ==
    [b \in 1..Len(tour_len) |-> SumReals(tour_len[b], Len(tour_len[b]))]

\* reward(static, tour_indices): the tensor [batch] it returns
Reward(st, idx) == SumRows(TourLengths(CloseTour(Permute(Gather(st, idx)))))

\* The caller holds a batch of city layouts and a tour for each.
RewardInit ==
    /\ \E B \in 1..MaxBatch, N \in CityCounts :
          /\ static \in [1..B -> {StaticOf(l) : l \in {x \in CityLayouts : Len(x) = N}}]
          /\ tour_indices \in [1..B -> Tours(N)]
    /\ reward_out = None
    /\ prev_reward = None
    /\ phase = "input"
    /\ CurriculumIdle /\ MaskIdle /\ DatasetIdle

\* A call of reward(static, tour_indices) by the caller.
reward ==
    /\ phase \in {"input", "reversed"}
    /\ reward_out' = Reward(static, tour_indices)
    /\ phase' = IF phase = "input" THEN "scored" ELSE "rescored"
    /\ UNCHANGED <<static, tour_indices, prev_reward>>
    /\ UNCHANGED <<curriculumVars, maskVars, datasetVars>>

\* The caller keeps the reward and reverses the visiting order of every tour.
reverse_tour ==
    /\ phase = "scored"
    /\ tour_indices' = [b \in 1..Len(tour_indices) |->
                           [k \in 1..Len(tour_indices[b]) |->
                               tour_indices[b][Len(tour_indices[b]) + 1 - k]]]
    /\ prev_reward' = reward_out
    /\ phase' = "reversed"
    /\ UNCHANGED <<static, reward_out>>
    /\ UNCHANGED <<curriculumVars, maskVars, datasetVars>>

RewardNext == reward \/ reverse_tour

RewardSpec == RewardInit /\ [][RewardNext]_vars

----------------------------------------------------------------------------
\* TSPDataset: construction, __len__ and __getitem__.

\* get_param_nodes(num_nodes, num_samples, seed, num_tiles, param): the tensors
\* [num_samples, coord_dims, num_nodes] the node sampler can return.
GetParamNodes(nn, ns) ==
    [1..ns -> {StaticOf(l) : l \in {x \in CityLayouts : Len(x) = nn}}]

\* torch.zeros(num_samples, 1, num_nodes)
Zeros(ns, nn) == [i \in 1..ns |-> <<[n \in 1..nn |-> 0]>>]

\* TSPDataset.__init__, lines 151-154: the fields of the new object
TSPDatasetInit(nn, ns, nodes) ==
    [dataset |-> nodes, dynamic |-> Zeros(ns, nn), num_nodes |-> nn, size |-> ns]

\* __getitem__ that hands out the whole dynamic tensor
GetItem_alldynamic(ds, idx) == <<ds.dataset[idx + 1], ds.dynamic, <<>> >>

\* TSPDataset.__getitem__: (static, dynamic, start_loc)
GetItem(ds, idx) == <<ds.dataset[idx + 1], ds.dynamic[idx + 1], <<>> >>

\* A dataset built with num_nodes = N and num_samples = S.
DatasetInit ==
    /\ \E N \in CityCounts, S \in 1..MaxSamples : \E nodes \in GetParamNodes(N, S) :
          /\ built = [num_nodes |-> N, num_samples |-> S, nodes |-> nodes]
          /\ dataset = TSPDatasetInit(N, S, nodes)
    /\ item_call = [op |-> "init", idx |-> 0]
    /\ item_ret = None
    /\ item_seen = [i \in 1..dataset.size |-> None]
    /\ CurriculumIdle /\ MaskIdle /\ RewardIdle

\* TSPDataset.__len__
dataset_len ==
    /\ item_call' = [op |-> "len", idx |-> 0]
    /\ item_ret' = dataset.size
    /\ UNCHANGED <<built, dataset, item_seen>>
    /\ UNCHANGED <<curriculumVars, maskVars, rewardVars>>

\* TSPDataset.__getitem__(idx), for idx in [0, size)
getitem(idx) ==
    /\ item_call' = [op |-> "getitem", idx |-> idx]
    /\ item_ret' = GetItem(dataset, idx)
    /\ item_seen' = [item_seen EXCEPT ![idx + 1] =
                        <<[item |-> item_ret', repeated |-> item_seen[idx + 1] # None]>>]
    /\ UNCHANGED <<built, dataset>>
    /\ UNCHANGED <<curriculumVars, maskVars, rewardVars>>

DatasetNext ==
    \/ dataset_len
    \/ \E idx \in 0..(dataset.size - 1) : getitem(idx)

DatasetSpec == DatasetInit /\ [][DatasetNext]_vars

----------------------------------------------------------------------------
\* Vocabulary of the properties.

RECURSIVE SumLengths(_)
\* The sum of the lengths of the stages of the list s.
SumLengths(s) == IF s = <<>> THEN 0 ELSE s[1].length + SumLengths(Tail(s))

\* The total curriculum length T.
Total == SumLengths(stages)

\* Every add_stage call had num_epochs >= 1.
PositiveLengths == \A k \in 1..Len(stages) : stages[k].length >= 1

\* add_stage calls, then one start() that returned, then increment_epoch calls
\* (and get_dataset calls); curr_epoch is then the number of increment_epoch calls.
Started == usage = "started"

\* The dataset generated for the stage self._stages[i], as the id-th dataset built.
DatasetFor(i, id) ==
    TSPDataset(num_nodes, num_samples, seed, StageAt(i).num_tiles, StageAt(i).param, id)

\* The epochs since start() (before finished) at which get_dataset() returns the
\* dataset of stage i.
EpochsOn(i) == {j \in 1..Len(log) : log[j].stage = i /\ log[j].ds # None}

----------------------------------------------------------------------------

\* C1: for a curriculum built with add_stage calls (each num_epochs >= 1) and
\* then start(), with T the sum of the stage lengths: after k < T calls of
\* increment_epoch() finished is false and get_dataset() returns the dataset;
\* after exactly T calls finished is true and get_dataset() fails.
C1_FinishedExactlyAtTotal ==
    (Started /\ PositiveLengths) =>
        /\ curr_epoch < Total =>
              /\ ~finished
              /\ call.op = "increment_epoch" => err = "none"
              /\ call.op = "get_dataset" =>
                    err = "none" /\ ret = curr_dataset /\ ret # None
        /\ curr_epoch = Total =>
              /\ finished
              /\ call.op = "increment_epoch" => err = "none"
              /\ call.op = "get_dataset" => err = "AssertionError"

\* C1 witness: three stages, exactly T increment_epoch calls, get_dataset() failed.
C1_Witness ==
    /\ Started /\ PositiveLengths /\ Len(stages) = 3
    /\ curr_epoch = Total
    /\ call.op = "get_dataset" /\ err = "AssertionError"

C3_IndexValidWhileNotFinished ==
    (Started /\ ~finished) => (InRange(curr_stage_index) /\ err # "IndexError")

\* C4: get_dataset() fails exactly when finished is true, returns the current
\* dataset when finished is false, and leaves every field of the curriculum
\* unchanged in both cases.
C4_GetDataset ==
    [][call'.op = "get_dataset" =>
          /\ UNCHANGED fields
          /\ err' = (IF finished THEN "AssertionError" ELSE "none")
          /\ ~finished => ret' = curr_dataset]_vars

\* C4 witness: get_dataset() failed on a finished curriculum whose second stage
\* was current.
C4_Witness ==
    /\ Started /\ finished /\ curr_stage_index = 1
    /\ call.op = "get_dataset" /\ err = "AssertionError"

\* C5: for n >= 1 stages of lengths >= 1, started and advanced until finished,
\* every stage was the current stage, with its dataset returned by
\* get_dataset(), at some epoch before finished, and the stages became current
\* in insertion order 0, 1, ..., n-1 with none skipped.
C5_EveryStageBecomesCurrent ==
    (Started /\ PositiveLengths /\ finished) =>
        /\ \A i \in 0..(Len(stages) - 1) :
              \E j \in EpochsOn(i) : log[j].ds[1].num_tiles = StageAt(i).num_tiles
        /\ log[1].stage = 0
        /\ \A j \in 1..(Len(log) - 1) :
              log[j + 1].stage \in {log[j].stage, log[j].stage + 1}

\* C6: after start() and any number of increment_epoch() calls the current
\* dataset is the one generated from stages[current_stage_index] with the
\* curriculum's num_nodes, num_samples and seed, and an increment_epoch() call
\* replaces the dataset if and only if it changes current_stage_index.
C6_DatasetOfCurrentStage ==
    /\ [](Started =>
            /\ InRange(curr_stage_index)
            /\ curr_dataset = <<DatasetFor(curr_stage_index, num_datasets)>>)
    /\ [][(Started /\ call'.op = "increment_epoch") =>
            (curr_dataset' # curr_dataset <=> curr_stage_index' # curr_stage_index)]_vars

\* C7: every operation is all-or-nothing: when start(), increment_epoch() or
\* get_dataset() fails, current_epoch, current_stage_index, the current stage,
\* the current dataset and finished are what they were before the call.
C7_AllOrNothing ==
    [][err' # "none" =>
          UNCHANGED <<curr_epoch, curr_stage_index, curr_stage, curr_dataset,
                      finished>>]_vars

\* C8: after any sequence of add_stage calls on a fresh curriculum the k-th
\* stage starts at the sum of the num_epochs of the stages added before it and
\* has its own num_epochs as length, the tracked total is the sum of all
\* lengths, and an add_stage call leaves the stages added before it,
\* current_epoch and finished unchanged.
C8_AddStage ==
    /\ [](usage = "building" =>
            /\ curr_len = Total
            /\ \A k \in 1..Len(stages) :
                  stages[k].start = SumLengths(SubSeq(stages, 1, k - 1)))
    /\ [][call'.op = "add_stage" =>
            /\ stages' = Append(stages, TSPStage(call'.num_tiles, call'.param,
                                                 Total, call'.num_epochs))
            /\ curr_len' = Total + call'.num_epochs
            /\ UNCHANGED <<curr_epoch, finished>>]_vars

\* C8 witness: a third stage was added after two stages of positive length.
C8_Witness ==
    /\ usage = "building" /\ call.op = "add_stage" /\ Len(stages) = 3
    /\ stages[2].start > 0 /\ stages[3].start > stages[2].start

\* C9: on a started curriculum every increment_epoch() call increases
\* current_epoch by exactly 1 and leaves current_stage_index unchanged or
\* increases it by exactly 1, neither ever decreases, and the epoch keeps
\* advancing on calls made after finished is true.
C9_EpochAndIndexAdvance ==
    [][(Started /\ usage' = "started") =>
          /\ curr_epoch' >= curr_epoch
          /\ curr_stage_index' >= curr_stage_index
          /\ call'.op = "increment_epoch" =>
                /\ curr_epoch' = curr_epoch + 1
                /\ curr_stage_index' \in {curr_stage_index, curr_stage_index + 1}]_vars

\* C9 witness: an increment_epoch() call made after finished advanced the epoch
\* of a curriculum whose second stage is current.
C9_Witness ==
    /\ Started /\ finished /\ call.op = "increment_epoch"
    /\ curr_epoch > Total + 1 /\ curr_stage_index = 1

\* C10: for stages of lengths >= 1, a stage added with num_epochs = n is
\* trained on for exactly n epochs: the epochs before finished at which
\* get_dataset() returns that stage's dataset number exactly n.
C10_TrainedForNumEpochs ==
    (Started /\ PositiveLengths /\ finished) =>
        \A i \in 0..(Len(stages) - 1) : Cardinality(EpochsOn(i)) = StageAt(i).length

\* C11: for stages of lengths >= 1, each stage becomes the current stage at the
\* epoch equal to its start attribute: the first epoch at which stage k is
\* current is stages[k].start.
C11_CurrentAtStart ==
    (Started /\ PositiveLengths) =>
        \A j \in 1..Len(log) :
            (j = 1 \/ log[j - 1].stage # log[j].stage) =>
                log[j].epoch = StageAt(log[j].stage).start

\* C16: when an increment_epoch() call brings current_epoch to a value equal to
\* both the total length and the current stage's start + length + 1, finished
\* becomes true and current_stage_index, the current stage and the current
\* dataset are left unchanged.
C16_FinishedWins ==
    [][(/\ call'.op = "increment_epoch"
        /\ curr_stage # None
        /\ curr_epoch' = Total
        /\ curr_epoch' = curr_stage[1].start + curr_stage[1].length + 1) =>
          /\ finished'
          /\ UNCHANGED <<curr_stage_index, curr_stage, curr_dataset, num_datasets>>]_vars

\* C16 witness: the call that finished a three-stage curriculum reached the
\* epoch at which the stage would otherwise have changed.
C16_Witness ==
    /\ Started /\ PositiveLengths /\ Len(stages) = 3
    /\ call.op = "increment_epoch" /\ finished
    /\ curr_epoch = Total
    /\ curr_epoch = curr_stage[1].start + curr_stage[1].length + 1

\* C17: on a started curriculum, once finished is true it stays true under
\* every further increment_epoch() call, current_stage_index, the current stage
\* and the current dataset never change again, and current_epoch keeps
\* increasing.
C17_FinishedIsFinal ==
    [][(Started /\ finished /\ usage' = "started") =>
          /\ finished'
          /\ UNCHANGED <<curr_stage_index, curr_stage, curr_dataset, num_datasets>>
          /\ call'.op = "increment_epoch" => curr_epoch' = curr_epoch + 1]_vars

\* C17 witness: two increment_epoch() calls were made after a three-stage
\* curriculum finished.
C17_Witness ==
    /\ Started /\ finished /\ Len(stages) = 3
    /\ call.op = "increment_epoch" /\ curr_epoch = Total + 2

\* The mask [B, N] with every city available.
AllOnes(m) == \A b \in 1..Len(m) : \A j \in 1..Len(m[b]) : m[b][j] = 1

\* C12: for every mask [B, N] and every chosen_idx with values in [0, N),
\* update_mask sets mask[b, chosen_idx[b]] to 0 for every b, leaves every other
\* entry unchanged whatever the dynamic argument is, and returns the mutated
\* mask; from an all-ones mask with chosen_idx = [k]*B column k becomes all
\* zero and the other columns stay 1.
C12_UpdateMask ==
    [][/\ Len(mask') = Len(mask)
       /\ \A b \in 1..Len(mask) :
             /\ Len(mask'[b]) = Len(mask[b])
             /\ \A j \in 1..Len(mask[b]) :
                   mask'[b][j] = IF j = chosen_idx'[b] + 1 THEN 0 ELSE mask[b][j]
       /\ mask_ret' = mask'
       /\ (AllOnes(mask) /\ \A b \in 1..Len(mask) : chosen_idx'[b] = chosen_idx'[1]) =>
             \A b \in 1..Len(mask) : \A j \in 1..Len(mask[b]) :
                 mask'[b][j] = 0 <=> j = chosen_idx'[1] + 1]_vars

\* C12 witness: from the all-ones mask [2, 3], chosen_idx = [1, 1] cleared
\* column 1 and nothing else.
C12_Witness ==
    /\ mask0 = <<(<<1, 1, 1>>), (<<1, 1, 1>>)>>
    /\ chosen_idx = <<1, 1>>
    /\ mask = <<(<<1, 0, 1>>), (<<1, 0, 1>>)>>
    /\ mask_ret = mask

\* C18: from an all-ones mask [B, N], after any sequence of update_mask calls
\* mask[b, j] is 0 if and only if j was chosen for b in an earlier call; an
\* entry that is 0 never returns to 1, and repeating a call with the same
\* chosen_idx leaves the mask unchanged.
C18_MaskHistory ==
    /\ [](AllOnes(mask0) =>
            \A b \in 1..Len(mask) : \A j \in 1..Len(mask[b]) :
                mask[b][j] = 0 <=> (j - 1) \in chosen[b])
    /\ [][AllOnes(mask0) =>
            /\ \A b \in 1..Len(mask) : \A j \in 1..Len(mask[b]) :
                  mask[b][j] = 0 => mask'[b][j] = 0
            /\ chosen_idx' = chosen_idx => mask' = mask]_vars

\* C18 witness: after calls that chose different cities for the two batch
\* elements, one of them has two cities visited and one still available.
C18_Witness ==
    /\ AllOnes(mask0)
    /\ mask = <<(<<0, 0, 1>>), (<<1, 0, 1>>)>>
    /\ chosen = <<{0, 1}, {1}>>
    /\ chosen_idx = <<0, 1>>

\* The city (x, y) at position k of the tour of batch element b; position N + 1
\* is position 1 again.
Visited(b, k) ==
    LET n == tour_indices[b][((k - 1) % Len(tour_indices[b])) + 1] + 1
    IN <<static[b][1][n], static[b][2][n]>>

\* The Euclidean distance of the points p and q of the plane.
Distance(p, q) == Sqrt((p[1] - q[1]) * (p[1] - q[1]) + (p[2] - q[2]) * (p[2] - q[2]))

RECURSIVE ClosedLength(_, _)
\* The sum of the distances of the first n legs of the closed tour of b.
ClosedLength(b, n) ==
    IF n = 0 THEN Zero
    ELSE Add(ClosedLength(b, n - 1), Distance(Visited(b, n), Visited(b, n + 1)))

\* The unit square's corners (0,0), (1,0), (1,1), (0,1) visited in that order.
UnitSquareTour(b) ==
    /\ static[b] = <<(<<0, 1, 1, 0>>), (<<0, 0, 1, 1>>)>>
    /\ tour_indices[b] = <<0, 1, 2, 3>>

C15_DatasetAccess ==
    /\ [](item_call.op = "len" => item_ret = built.num_samples)
    /\ [](item_call.op = "getitem" =>
            item_ret = <<built.nodes[item_call.idx + 1],
                         <<[n \in 1..built.num_nodes |-> 0]>>,
                         <<>> >>)
    /\ [][/\ UNCHANGED dataset
          /\ (item_call'.op = "getitem" /\ item_seen[item_call'.idx + 1] # None) =>
                item_ret' = item_seen[item_call'.idx + 1][1].item]_vars

\* C15 witness: the second sample of a dataset of two samples of three nodes
\* was accessed more than once.
C15_Witness ==
    /\ built.num_samples = 2 /\ built.num_nodes = 3
    /\ built.nodes[1] # built.nodes[2]
    /\ item_call = [op |-> "getitem", idx |-> 1]
    /\ item_seen[2] # None
    /\ item_seen[2][1].repeated
    /\ item_ret = <<built.nodes[2], <<(<<0, 0, 0>>)>>, <<>> >>

====
